---- MODULE Spec2Model ----
(***************************************************************************)
(* nengo_mpi: the coordinator (MpiInterface, rank 0) drives NumWorkers     *)
(* worker processes (ranks 1..NumWorkers), one chunk each, over a merged   *)
(* communicator: control messages on tag 1, a step-count broadcast, a      *)
(* group barrier, probe results on tag 3.                                  *)
(*                                                                         *)
(* The coordinator's methods are modelled from src/mpi_sim/mpi_simulator   *)
(* .cpp and Probe from src/mpi_sim/probe.hpp.  The worker executable, the  *)
(* chunk's step loop and the bodies of MPISend/MPIReceive are not part of  *)
(* the sources at hand; they are modelled from the specification (section  *)
(* 4.2, 4.5, 6).  Sends are buffered (a send returns once the message is   *)
(* queued); every channel is first-in first-out.  Signals are vectors of   *)
(* extent 1, written as integers.                                          *)
(***************************************************************************)
EXTENDS Integers, Sequences, FiniteSets, TLC

\* ---- bounds -------------------------------------------------------------
NumWorkers == 2      \* worker processes spawned (num_chunks)
MaxSteps   == 2      \* largest n passed to one run_n_steps call
MaxRuns    == 2      \* run_n_steps calls in one session

Workers == 1..NumWorkers
Chunks  == 0..NumWorkers          \* chunk index = rank; 0 is the master chunk
Steps   == 0..MaxSteps

\* ---- operators and configuration commands ------------------------------
Reset(dst, value)   == [o |-> "Reset",   a |-> dst,  b |-> value, c |-> 0]
Copy(dst, src)      == [o |-> "Copy",    a |-> dst,  b |-> src,   c |-> 0]
DotInc(A, X, Y)     == [o |-> "DotInc",  a |-> A,    b |-> X,     c |-> Y]
MPISend(peer, sig)  == [o |-> "MPISend", a |-> peer, b |-> sig,   c |-> 0]
MPIRecv(peer, sig)  == [o |-> "MPIRecv", a |-> peer, b |-> sig,   c |-> 0]

AddSignal(key, label, data)     == [t |-> "signal", a |-> key,  b |-> label, c |-> data]
AddOp(op)                       == [t |-> "op",     a |-> op,   b |-> 0,     c |-> 0]
AddProbe(pkey, skey, period)    == [t |-> "probe",  a |-> pkey, b |-> skey,  c |-> period]

\* ---- the configurations the caller hands to the interface --------------
Scenarios == {"pair", "reset", "collide", "master", "orphan"}

\* The caller's per-worker configuration, in the order it issues the calls.
Plan(s, w) ==
    CASE s = "pair" /\ w = 1 ->
           << AddSignal(1, "X", 1), AddSignal(2, "Y", 0),
              AddOp(DotInc(1, 1, 2)), AddOp(MPISend(2, 2)),
              AddProbe(1, 2, 2) >>
      [] s = "pair" /\ w = 2 ->
           << AddSignal(1, "R", 0), AddSignal(2, "D", 0),
              AddOp(MPIRecv(1, 1)), AddOp(Copy(2, 1)),
              AddProbe(2, 1, 1) >>
      [] s = "reset" /\ w = 1 ->
           << AddSignal(1, "X", 0), AddOp(Reset(1, 5)), AddOp(MPISend(2, 1)) >>
      [] s = "reset" /\ w = 2 ->
           << AddSignal(1, "R", 0), AddSignal(2, "D", 0),
              AddOp(MPIRecv(1, 1)), AddOp(Copy(2, 1)), AddProbe(1, 1, 1) >>
      [] s = "collide" /\ w = 1 ->
           << AddSignal(1, "X", 0), AddOp(Reset(1, 1)), AddProbe(1, 1, 1) >>
      [] s = "collide" /\ w = 2 ->
           << AddSignal(1, "X", 0), AddOp(Reset(1, 2)), AddProbe(1, 1, 2) >>
      [] s = "master" /\ w = 1 ->
           << AddSignal(1, "R", 0), AddOp(MPIRecv(0, 1)), AddProbe(1, 1, 1),
              AddProbe(2, 1, 16777217) >>
      [] s = "orphan" /\ w = 1 ->
           << AddSignal(1, "X", 0), AddOp(Reset(1, 3)) >>
      [] s = "orphan" /\ w = 2 ->
           << AddSignal(1, "R", 0), AddOp(MPIRecv(1, 1)) >>
      [] OTHER -> << >>

\* The master chunk, built by the caller before initialize_chunks.
MasterSig(s) == IF s = "master" THEN (1 :> 0) ELSE (1 :> 0)
MasterOps(s) ==
    IF s = "master" THEN << Reset(1, 1), MPISend(1, 1) >>
    ELSE IF s = "collide" THEN << >>
    ELSE << Reset(1, 5) >>

\* The probes the caller put on the master chunk.
MasterProbes(s) ==
    IF s = "reset"
    THEN << [key |-> 7, sig |-> 1, period |-> 1, data |-> << >>] >>
    ELSE << >>

VARIABLES
    scn,        \* the configuration of this session
    cpc,        \* coordinator: "new", "idle", or the method it is inside
    comm,       \* ranks of the merged communicator (empty before the spawn)
    cfgIdx,     \* per worker: configuration commands issued so far
    finalized,  \* finalize() has been called
    stopSentTo, \* ranks a stop flag was sent to
    tornDown,   \* MPI_Finalize has been called
    runs,       \* run_n_steps calls so far
    requested,  \* sum of the step counts passed to run_n_steps
    ungathered, \* a run has completed whose probes were not gathered yet
    gpend,      \* gather_probe_data: ranks still to receive a probe from
    probe_data, \* gather_probe_data: probe key -> sample sequence
    bound,      \* master chunk: its MPISend/MPIRecv hold &comm
    ctrl,       \* per worker: messages in flight on tag 1
    bc,         \* per worker: broadcast step counts not yet received
    gq,         \* per source rank: messages in flight to rank 0 on tag 3
    chan,       \* chan[a][b]: values in flight from chunk a's MPISend to b
    sentLog,    \* sentLog[a][b]: every value a's MPISend transmitted to b
    inBarrier,  \* ranks waiting in comm.barrier()
    wpc,        \* per worker: position in the worker program
    label,      \* per worker: chunk label received
    dt,         \* per chunk: timestep size
    applied,    \* per worker: configuration commands applied, in order
    sig,        \* per chunk: signal store, key -> value
    ops,        \* per chunk: operator sequence
    probes,     \* per chunk: probes, each with its recorded samples
    nsteps,     \* per chunk: steps completed (the step index of the next)
    stepsLeft,  \* per chunk: steps of the current run still to execute
    opIdx,      \* per chunk: next operator of the current step
    execs       \* per chunk: how many times each operator has executed

vars == << scn, cpc, comm, cfgIdx, finalized, stopSentTo, tornDown, runs,
           requested, ungathered, gpend, probe_data, bound, ctrl, bc, gq,
           chan, sentLog, inBarrier, wpc, label, dt, applied, sig, ops,
           probes, nsteps, stepsLeft, opIdx, execs >>

coordVars  == << cpc, comm, cfgIdx, finalized, stopSentTo, tornDown, runs,
                 requested, ungathered, gpend, probe_data, bound >>
chunkVars  == << sig, ops, probes, nsteps, stepsLeft, opIdx, execs >>
workerVars == << wpc, label, dt, applied >>
netVars    == << ctrl, bc, gq, chan, sentLog, inBarrier >>

EmptyFn == [x \in {} |-> 0]

Init ==
    /\ scn \in Scenarios
    /\ cpc = "new"
    /\ comm = {}
    /\ cfgIdx = [w \in Workers |-> 0]
    /\ finalized = FALSE
    /\ stopSentTo = {}
    /\ tornDown = FALSE
    /\ runs = 0
    /\ requested = 0
    /\ ungathered = FALSE
    /\ gpend = << >>
    /\ probe_data = EmptyFn
    /\ bound = FALSE
    /\ ctrl = [w \in Workers |-> << >>]
    /\ bc = [w \in Workers |-> << >>]
    /\ gq = [c \in Chunks |-> << >>]
    /\ chan = [a \in Chunks |-> [b \in Chunks |-> << >>]]
    /\ sentLog = [a \in Chunks |-> [b \in Chunks |-> << >>]]
    /\ inBarrier = {}
    /\ wpc = [w \in Workers |-> "unspawned"]
    /\ label = [w \in Workers |-> << >>]
    /\ dt = [c \in Chunks |-> IF c = 0 THEN 1 ELSE 0]
    /\ applied = [w \in Workers |-> << >>]
    /\ sig = [c \in Chunks |-> IF c = 0 THEN MasterSig(scn) ELSE EmptyFn]
    /\ ops = [c \in Chunks |-> IF c = 0 THEN MasterOps(scn) ELSE << >>]
    /\ probes = [c \in Chunks |-> IF c = 0 THEN MasterProbes(scn) ELSE << >>]
    /\ nsteps = [c \in Chunks |-> 0]
    /\ stepsLeft = [c \in Chunks |-> 0]
    /\ opIdx = [c \in Chunks |-> 1]
    /\ execs = [c \in Chunks |->
                  IF c = 0 THEN [i \in 1..Len(MasterOps(scn)) |-> 0] ELSE << >>]

\* ---- the transport -------------------------------------------------------
\* comm.send(dest, tag, value): the message joins the (source, dest, tag) queue.
Send(q, msgs) == q \o msgs
\* comm.recv(source, tag, value) takes the oldest message of the queue; what
\* is left after n receives:
Rest(q, n) == SubSeq(q, n + 1, Len(q))

\* ---- the caller of MpiInterface (the python side) -------------------------
\* The order in which the session calls the interface: spawn, configure,
\* (run, gather)*, stop, tear down.  finish_simulation is callable whenever
\* the coordinator is between two calls: nothing in it asks for a stop.
CallerMay(m) ==
    CASE m = "initialize_chunks" -> cpc = "new"
      [] m = "configure" ->
             cpc = "idle" /\ ~finalized /\ ~tornDown /\ runs = 0
      [] m = "run_n_steps" ->
             /\ cpc = "idle" /\ ~finalized /\ ~tornDown /\ ~ungathered
             /\ runs < MaxRuns
             /\ \A w \in Workers : cfgIdx[w] = Len(Plan(scn, w))
      [] m = "gather_probe_data" -> cpc = "idle" /\ ungathered /\ ~tornDown
      [] m = "finalize" ->
             cpc = "idle" /\ ~finalized /\ ~tornDown /\ ~ungathered
      [] m = "finish_simulation" -> cpc = "idle" /\ ~tornDown

\* The next configuration command the caller issues for worker w.
NextCmd(w) == Plan(scn, w)[cfgIdx[w] + 1]
HasCmd(w, t) ==
    /\ cfgIdx[w] < Len(Plan(scn, w))
    /\ NextCmd(w).t = t

\* probe_counts, as the caller passes it to gather_probe_data: chunk index ->
\* number of probes it created on that chunk.
ProbeCount(c) ==
    IF c = 0 THEN Len(probes[0])
    ELSE Cardinality({i \in 1..cfgIdx[c] : Plan(scn, c)[i].t = "probe"})

\* ---- MpiInterface -----------------------------------------------------------
\* (variant) the label counts from zero, as the loop index does.
ChunkLabelFromZero(i) == << "Chunk", i >>
\* The label built for loop index i: s << "Chunk " << i + 1.
ChunkLabel(i) == << "Chunk", i + 1 >>
\* The rank the loop index i of initialize_chunks and finalize addresses.
RankOf(i) == i + 1
\* The loop indices of initialize_chunks and finalize.
RemoteIndices == 0..(NumWorkers - 1)
IndexOf(w) == CHOOSE i \in RemoteIndices : RankOf(i) = w

\* (variant) the outcome of the spawn is not looked at.
SpawnOutcomeIgnored(up) == "idle"
\* MPI_Comm_spawn(..., num_remote_chunks, ..., MPI_ERRCODES_IGNORE) under the
\* error handler MPI_Init installs (errors are fatal; the code installs no
\* other) and the collective merge: with `up` the workers that launched and
\* joined, the call returns only if that is all of them.
SpawnOutcome(up) == IF up = Workers THEN "idle" ELSE "aborted"

initialize_chunks(up) ==
    /\ CallerMay("initialize_chunks")
    /\ cpc' = SpawnOutcome(up)
    /\ IF SpawnOutcome(up) = "idle"
       THEN /\ comm' = {0} \cup up
            /\ wpc' = [w \in Workers |->
                         IF w \in up THEN "init" ELSE "unspawned"]
            /\ ctrl' = [w \in Workers |->
                          IF \E i \in RemoteIndices : RankOf(i) = w
                          THEN Send(ctrl[w],
                                    << ChunkLabel(IndexOf(w)), dt[0] >>)
                          ELSE ctrl[w]]
       ELSE /\ comm' = {}
            /\ wpc' = [w \in Workers |->
                         IF w \in up THEN "killed" ELSE "unspawned"]
            /\ ctrl' = ctrl
    /\ UNCHANGED << scn, cfgIdx, finalized, stopSentTo, tornDown, runs,
                    requested, ungathered, gpend, probe_data, bound >>
    /\ UNCHANGED << bc, gq, chan, sentLog, inBarrier >>
    /\ UNCHANGED << label, dt, applied >>
    /\ UNCHANGED chunkVars

\* add_probe takes the period as a float: the integers a single-precision
\* float holds exactly are those of at most FloatMantissa; a larger one is
\* rounded to the nearest multiple of the spacing at its size, ties to the
\* even multiple.
FloatMantissa == 16777216
RECURSIVE FloatSpacing(_)
FloatSpacing(n) == IF n < FloatMantissa THEN 1 ELSE 2 * FloatSpacing(n \div 2)
AsFloat(n) ==
    LET u == FloatSpacing(n)
        q == n \div u
        r == n % u
    IN IF 2 * r < u \/ (2 * r = u /\ q % 2 = 0) THEN q * u ELSE (q + 1) * u

\* (variant) add_signal sends the key where the data belongs.
AddSignalMsgsKeyTwice(key, lbl, data) == << "add_signal_flag", key, lbl, key >>
AddSignalMsgs(key, lbl, data) == << "add_signal_flag", key, lbl, data >>
AddOpMsgs(op_string) == << "add_op_flag", op_string >>
\* (variant) add_probe sends the signal key before the probe key.
AddProbeMsgsSwapped(probe_key, signal_key, period) ==
    << "add_probe_flag", signal_key, probe_key, period >>
AddProbeMsgs(probe_key, signal_key, period) ==
    << "add_probe_flag", probe_key, signal_key, period >>

ConfigSend(component, msgs) ==
    /\ ctrl' = [ctrl EXCEPT ![component] = Send(@, msgs)]
    /\ cfgIdx' = [cfgIdx EXCEPT ![component] = @ + 1]
    /\ UNCHANGED << scn, cpc, comm, finalized, stopSentTo, tornDown, runs,
                    requested, ungathered, gpend, probe_data, bound >>
    /\ UNCHANGED << bc, gq, chan, sentLog, inBarrier >>
    /\ UNCHANGED workerVars
    /\ UNCHANGED chunkVars

add_signal(component) ==
    /\ CallerMay("configure")
    /\ HasCmd(component, "signal")
    /\ LET cmd == NextCmd(component)
       IN ConfigSend(component, AddSignalMsgs(cmd.a, cmd.b, cmd.c))

add_op(component) ==
    /\ CallerMay("configure")
    /\ HasCmd(component, "op")
    /\ ConfigSend(component, AddOpMsgs(NextCmd(component).a))

add_probe(component) ==
    /\ CallerMay("configure")
    /\ HasCmd(component, "probe")
    /\ LET cmd == NextCmd(component)
       IN ConfigSend(component, AddProbeMsgs(cmd.a, cmd.b, AsFloat(cmd.c)))

\* (variant) the stop loop ends one index early.
StopTargetsShort == {RankOf(i) : i \in RemoteIndices \ {NumWorkers - 1}}
\* The ranks finalize sends stop_flag to.
StopTargets == {RankOf(i) : i \in RemoteIndices}

finalize ==
    /\ CallerMay("finalize")
    /\ bound' = TRUE
    /\ ctrl' = [w \in Workers |->
                  IF w \in StopTargets THEN Send(ctrl[w], << "stop_flag" >>)
                  ELSE ctrl[w]]
    /\ stopSentTo' = stopSentTo \cup StopTargets
    /\ finalized' = TRUE
    /\ UNCHANGED << scn, cpc, comm, cfgIdx, tornDown, runs, requested,
                    ungathered, gpend, probe_data >>
    /\ UNCHANGED << bc, gq, chan, sentLog, inBarrier >>
    /\ UNCHANGED workerVars
    /\ UNCHANGED chunkVars

\* broadcast(comm, steps, 0), then the master chunk starts its steps.
run_n_steps(steps) ==
    /\ CallerMay("run_n_steps")
    /\ bc' = [w \in Workers |-> Append(bc[w], steps)]
    /\ stepsLeft' = [stepsLeft EXCEPT ![0] = steps]
    /\ opIdx' = [opIdx EXCEPT ![0] = 1]
    /\ cpc' = "run"
    /\ runs' = runs + 1
    /\ requested' = requested + steps
    /\ UNCHANGED << scn, comm, cfgIdx, finalized, stopSentTo, tornDown,
                    ungathered, gpend, probe_data, bound >>
    /\ UNCHANGED << ctrl, gq, chan, sentLog, inBarrier >>
    /\ UNCHANGED workerVars
    /\ UNCHANGED << sig, ops, probes, nsteps, execs >>

\* (variant) run_n_steps returns without the barrier.
RunNoBarrier ==
    /\ cpc = "run"
    /\ stepsLeft[0] = 0
    /\ cpc' = "idle"
    /\ ungathered' = TRUE
    /\ UNCHANGED << scn, comm, cfgIdx, finalized, stopSentTo, tornDown, runs,
                    requested, gpend, probe_data, bound >>
    /\ UNCHANGED netVars
    /\ UNCHANGED workerVars
    /\ UNCHANGED chunkVars

\* master_chunk->run_n_steps(steps) has returned: comm.barrier().
RunBarrier ==
    /\ cpc = "run"
    /\ stepsLeft[0] = 0
    /\ cpc' = "runbar"
    /\ inBarrier' = inBarrier \cup {0}
    /\ UNCHANGED << scn, comm, cfgIdx, finalized, stopSentTo, tornDown, runs,
                    requested, ungathered, gpend, probe_data, bound >>
    /\ UNCHANGED << ctrl, bc, gq, chan, sentLog >>
    /\ UNCHANGED workerVars
    /\ UNCHANGED chunkVars

RECURSIVE Repeat(_, _)
Repeat(x, n) == IF n <= 0 THEN << >> ELSE << x >> \o Repeat(x, n - 1)

\* The receives gather_probe_data will post, in order: probe_counts is walked
\* by increasing chunk index, and an entry counts only if chunk_index > 0.
\* (variant) the coordinator's own entry is received from like any other.
PostedAll(c) == Repeat(c, ProbeCount(c))
\* The receives posted for the entry of chunk index c.
Posted(c) == IF c > 0 THEN Repeat(c, ProbeCount(c)) ELSE << >>

RECURSIVE GatherOrder(_)
GatherOrder(c) ==
    IF c > NumWorkers THEN << >>
    ELSE Posted(c) \o GatherOrder(c + 1)

gather_probe_data ==
    /\ CallerMay("gather_probe_data")
    /\ gpend' = GatherOrder(0)
    /\ cpc' = "gather"
    /\ UNCHANGED << scn, comm, cfgIdx, finalized, stopSentTo, tornDown, runs,
                    requested, ungathered, probe_data, bound >>
    /\ UNCHANGED netVars
    /\ UNCHANGED workerVars
    /\ UNCHANGED chunkVars

\* probe_data[probe_key] = data
StoreProbe(pd, chunk_index, probe_key, data) == (probe_key :> data) @@ pd

\* (variant) the receive accepts a message of any rank still owed one.
GatherSourceAny(pending) == {pending[x] : x \in 1..Len(pending)}
\* The ranks the next receive accepts a message from: the receive names its
\* source, the chunk index of the entry being walked.
GatherSource(pending) == {Head(pending)}

\* The receives still to post once one from rank r has completed.
PendingAfter(pending, r) ==
    LET x == CHOOSE y \in 1..Len(pending) :
                 pending[y] = r /\ \A z \in 1..(y - 1) : pending[z] # r
    IN SubSeq(pending, 1, x - 1) \o SubSeq(pending, x + 1, Len(pending))

\* comm.recv(chunk_index, 3, probe_key); comm.recv(chunk_index, 3, *data).
GatherRecv ==
    /\ cpc = "gather"
    /\ gpend # << >>
    /\ \E chunk_index \in GatherSource(gpend) :
          /\ Len(gq[chunk_index]) >= 2
          /\ probe_data' = StoreProbe(probe_data, chunk_index,
                                      gq[chunk_index][1], gq[chunk_index][2])
          /\ gq' = [gq EXCEPT ![chunk_index] = Rest(@, 2)]
          /\ gpend' = PendingAfter(gpend, chunk_index)
    /\ UNCHANGED << scn, cpc, comm, cfgIdx, finalized, stopSentTo, tornDown,
                    runs, requested, ungathered, bound >>
    /\ UNCHANGED << ctrl, bc, chan, sentLog, inBarrier >>
    /\ UNCHANGED workerVars
    /\ UNCHANGED chunkVars

\* (variant) gather_probe_data returns without the barrier.
GatherNoBarrier ==
    /\ cpc = "gather"
    /\ gpend = << >>
    /\ cpc' = "idle"
    /\ ungathered' = FALSE
    /\ UNCHANGED << scn, comm, cfgIdx, finalized, stopSentTo, tornDown, runs,
                    requested, gpend, probe_data, bound >>
    /\ UNCHANGED netVars
    /\ UNCHANGED workerVars
    /\ UNCHANGED chunkVars

\* All probes received: comm.barrier().
GatherBarrier ==
    /\ cpc = "gather"
    /\ gpend = << >>
    /\ cpc' = "gatherbar"
    /\ inBarrier' = inBarrier \cup {0}
    /\ UNCHANGED << scn, comm, cfgIdx, finalized, stopSentTo, tornDown, runs,
                    requested, ungathered, gpend, probe_data, bound >>
    /\ UNCHANGED << ctrl, bc, gq, chan, sentLog >>
    /\ UNCHANGED workerVars
    /\ UNCHANGED chunkVars

\* MPI_Finalize()
finish_simulation ==
    /\ CallerMay("finish_simulation")
    /\ tornDown' = TRUE
    /\ UNCHANGED << scn, cpc, comm, cfgIdx, finalized, stopSentTo, runs,
                    requested, ungathered, gpend, probe_data, bound >>
    /\ UNCHANGED netVars
    /\ UNCHANGED workerVars
    /\ UNCHANGED chunkVars

\* ---- the group barrier ----------------------------------------------------
\* comm.barrier() returns in every rank once every rank of comm has entered,
\* and not before.
\* (variant) the barrier gives up waiting once some rank has entered.
BarrierTimesOut == inBarrier # {}
BarrierComplete == inBarrier = comm

BarrierRelease ==
    /\ comm # {}
    /\ BarrierComplete
    /\ inBarrier' = {}
    /\ cpc' = "idle"
    /\ ungathered' = (cpc = "runbar")
    /\ wpc' = [w \in Workers |->
                 IF wpc[w] = "runbar" THEN "sendprobes" ELSE "loop"]
    /\ UNCHANGED << scn, comm, cfgIdx, finalized, stopSentTo, tornDown, runs,
                    requested, gpend, probe_data, bound >>
    /\ UNCHANGED << ctrl, bc, gq, chan, sentLog >>
    /\ UNCHANGED << label, dt, applied >>
    /\ UNCHANGED chunkVars

\* ---- Probe ---------------------------------------------------------------
NewProbe(probe_key, signal_key, period) ==
    [key |-> probe_key, sig |-> signal_key, period |-> period, data |-> << >>]

\* Probe<T>::gather(n_steps): on a step whose index is a multiple of the
\* period, a copy of the signal's current value joins the data.
\* (variant) the test is made on the count of steps, not on the index.
ProbeRecordsOnCount(n_steps, period) == (n_steps + 1) % period = 0
ProbeRecords(n_steps, period) == n_steps % period = 0
\* (variant) the probe keeps the signal itself, not a copy of it: every
\* sample reads as the signal's current value.
gatherAliased(p, n_steps, signal) ==
    IF ProbeRecords(n_steps, p.period)
    THEN [p EXCEPT !.data = [i \in 1..(Len(@) + 1) |-> signal]]
    ELSE p
gather(p, n_steps, signal) ==
    IF ProbeRecords(n_steps, p.period)
    THEN [p EXCEPT !.data = Append(@, signal)]
    ELSE p

\* Probe<T>::get_data(): the data, which stays in the probe.
get_data(p) == p.data

\* (variant) handing the data out empties the probe.
DrainedEmpty(p) == [p EXCEPT !.data = << >>]
\* The probe after get_data(): the list is returned by value, the member is
\* not written.
Drained(p) == p

\* ---- the worker process ---------------------------------------------------
WorkerFrame(w) ==
    /\ UNCHANGED coordVars
    /\ UNCHANGED scn
    /\ UNCHANGED << bc, gq, chan, sentLog, inBarrier >>
    /\ UNCHANGED << nsteps, stepsLeft, opIdx >>

\* The worker first receives its chunk label and dt.
WorkerInit(w) ==
    /\ wpc[w] = "init"
    /\ Len(ctrl[w]) >= 2
    /\ label' = [label EXCEPT ![w] = ctrl[w][1]]
    /\ dt' = [dt EXCEPT ![w] = ctrl[w][2]]
    /\ ctrl' = [ctrl EXCEPT ![w] = Rest(@, 2)]
    /\ wpc' = [wpc EXCEPT ![w] = "loop"]
    /\ WorkerFrame(w)
    /\ UNCHANGED << applied, sig, ops, probes, execs >>

\* The worker reads a flag, then the fields of that flag's message.
Flagged(w, flag, fields) ==
    /\ wpc[w] = "loop"
    /\ Len(ctrl[w]) >= 1 + fields
    /\ ctrl[w][1] = flag
    /\ ctrl' = [ctrl EXCEPT ![w] = Rest(@, 1 + fields)]

WorkerAddSignal(w) ==
    /\ Flagged(w, "add_signal_flag", 3)
    /\ LET key == ctrl[w][2]  lbl == ctrl[w][3]  data == ctrl[w][4]
       IN /\ sig' = [sig EXCEPT ![w] = (key :> data) @@ @]
          /\ applied' = [applied EXCEPT ![w] = Append(@, AddSignal(key, lbl, data))]
    /\ WorkerFrame(w)
    /\ UNCHANGED << wpc, label, dt, ops, probes, execs >>

WorkerAddOp(w) ==
    /\ Flagged(w, "add_op_flag", 1)
    /\ LET op_string == ctrl[w][2]
       IN /\ ops' = [ops EXCEPT ![w] = Append(@, op_string)]
          /\ execs' = [execs EXCEPT ![w] = Append(@, 0)]
          /\ applied' = [applied EXCEPT ![w] = Append(@, AddOp(op_string))]
    /\ WorkerFrame(w)
    /\ UNCHANGED << wpc, label, dt, sig, probes >>

WorkerAddProbe(w) ==
    /\ Flagged(w, "add_probe_flag", 3)
    /\ LET probe_key == ctrl[w][2]  signal_key == ctrl[w][3]  period == ctrl[w][4]
       IN /\ probes' = [probes EXCEPT ![w] =
                           Append(@, NewProbe(probe_key, signal_key, period))]
          /\ applied' = [applied EXCEPT ![w] =
                           Append(@, AddProbe(probe_key, signal_key, period))]
    /\ WorkerFrame(w)
    /\ UNCHANGED << wpc, label, dt, sig, ops, execs >>

\* The stop flag ends the worker's loop.
WorkerStop(w) ==
    /\ Flagged(w, "stop_flag", 0)
    /\ wpc' = [wpc EXCEPT ![w] = "done"]
    /\ WorkerFrame(w)
    /\ UNCHANGED << label, dt, applied, sig, ops, probes, execs >>

\* A step count arrives by broadcast; control messages sent before it are
\* applied before it.
WorkerStartRun(w) ==
    /\ wpc[w] = "loop"
    /\ ctrl[w] = << >>
    /\ bc[w] # << >>
    /\ stepsLeft' = [stepsLeft EXCEPT ![w] = Head(bc[w])]
    /\ opIdx' = [opIdx EXCEPT ![w] = 1]
    /\ bc' = [bc EXCEPT ![w] = Tail(@)]
    /\ wpc' = [wpc EXCEPT ![w] = "run"]
    /\ UNCHANGED coordVars
    /\ UNCHANGED scn
    /\ UNCHANGED << ctrl, gq, chan, sentLog, inBarrier >>
    /\ UNCHANGED << label, dt, applied >>
    /\ UNCHANGED << sig, ops, probes, nsteps, execs >>

\* The steps are done: the worker enters the barrier that ends the run.
WorkerRunBarrier(w) ==
    /\ wpc[w] = "run"
    /\ stepsLeft[w] = 0
    /\ wpc' = [wpc EXCEPT ![w] = "runbar"]
    /\ inBarrier' = inBarrier \cup {w}
    /\ UNCHANGED coordVars
    /\ UNCHANGED scn
    /\ UNCHANGED << ctrl, bc, gq, chan, sentLog >>
    /\ UNCHANGED << label, dt, applied >>
    /\ UNCHANGED chunkVars

\* One (probe key, sample sequence) pair per probe, in creation order.
RECURSIVE ProbeMsgs(_)
ProbeMsgs(ps) ==
    IF ps = << >> THEN << >>
    ELSE << Head(ps).key, get_data(Head(ps)) >> \o ProbeMsgs(Tail(ps))

\* The worker sends its probes on tag 3 and enters the barrier that ends the
\* gather.
WorkerGather(w) ==
    /\ wpc[w] = "sendprobes"
    /\ gq' = [gq EXCEPT ![w] = Send(@, ProbeMsgs(probes[w]))]
    /\ wpc' = [wpc EXCEPT ![w] = "gatherbar"]
    /\ inBarrier' = inBarrier \cup {w}
    /\ UNCHANGED coordVars
    /\ UNCHANGED scn
    /\ probes' = [probes EXCEPT ![w] = [i \in 1..Len(@) |-> Drained(@[i])]]
    /\ UNCHANGED << ctrl, bc, chan, sentLog >>
    /\ UNCHANGED << label, dt, applied >>
    /\ UNCHANGED << sig, ops, nsteps, stepsLeft, opIdx, execs >>

\* ---- the chunk's step loop ------------------------------------------------
Running(c) ==
    /\ IF c = 0 THEN cpc = "run" ELSE wpc[c] = "run"
    /\ stepsLeft[c] > 0

\* The operator the chunk executes next, if the pass is not over.
AtOp(c, name) ==
    /\ Running(c)
    /\ opIdx[c] <= Len(ops[c])
    /\ ops[c][opIdx[c]].o = name
CurOp(c) == ops[c][opIdx[c]]

\* A worker binds its synchronization operators when it builds them; the
\* master chunk's are bound by finalize().
Bound(c) == c # 0 \/ bound

\* (variant) the pass moves on two operators at a time.
NextOpSkips(i) == i + 2
\* The operator called after operator i of the pass.
NextOp(i) == i + 1

\* An operator of chunk c has run: it is counted and the pass moves on.
StepFrame(c) ==
    /\ execs' = [execs EXCEPT ![c][opIdx[c]] = @ + 1]
    /\ opIdx' = [opIdx EXCEPT ![c] = NextOp(@)]
    /\ UNCHANGED coordVars
    /\ UNCHANGED scn
    /\ UNCHANGED << ctrl, bc, gq, inBarrier >>
    /\ UNCHANGED workerVars
    /\ UNCHANGED << ops, probes, nsteps, stepsLeft >>

ExecReset(c) ==
    /\ AtOp(c, "Reset")
    /\ sig' = [sig EXCEPT ![c][CurOp(c).a] = CurOp(c).b]
    /\ StepFrame(c)
    /\ UNCHANGED << chan, sentLog >>

ExecCopy(c) ==
    /\ AtOp(c, "Copy")
    /\ sig' = [sig EXCEPT ![c][CurOp(c).a] = sig[c][CurOp(c).b]]
    /\ StepFrame(c)
    /\ UNCHANGED << chan, sentLog >>

ExecDotInc(c) ==
    /\ AtOp(c, "DotInc")
    /\ sig' = [sig EXCEPT ![c][CurOp(c).c] =
                  @ + sig[c][CurOp(c).a] * sig[c][CurOp(c).b]]
    /\ StepFrame(c)
    /\ UNCHANGED << chan, sentLog >>

\* (variant) MPISend hands its signal over: the sender's copy is zeroed.
ExecMPISendMoves(c) ==
    /\ AtOp(c, "MPISend")
    /\ Bound(c)
    /\ LET peer == CurOp(c).a  value == sig[c][CurOp(c).b]
       IN /\ chan' = [chan EXCEPT ![c][peer] = Send(@, << value >>)]
          /\ sentLog' = [sentLog EXCEPT ![c][peer] = Append(@, value)]
    /\ StepFrame(c)
    /\ sig' = [sig EXCEPT ![c][CurOp(c).b] = 0]

\* MPISend transmits the current value of its signal to the peer.
ExecMPISend(c) ==
    /\ AtOp(c, "MPISend")
    /\ Bound(c)
    /\ LET peer == CurOp(c).a  value == sig[c][CurOp(c).b]
       IN /\ chan' = [chan EXCEPT ![c][peer] = Send(@, << value >>)]
          /\ sentLog' = [sentLog EXCEPT ![c][peer] = Append(@, value)]
    /\ StepFrame(c)
    /\ UNCHANGED sig

\* (variant) MPIReceive takes the newest value in flight.
ReceivedNewest(q) == q[Len(q)]
\* (variant) MPIReceive looks at the value and leaves it in flight.
RemainingAll(q) == q
\* What MPIReceive takes from the values in flight, and what it leaves.
Received(q) == Head(q)
Remaining(q) == Tail(q)

\* MPIReceive blocks until a value from the peer is there, then overwrites
\* its signal with it.
ExecMPIRecv(c) ==
    /\ AtOp(c, "MPIRecv")
    /\ Bound(c)
    /\ LET peer == CurOp(c).a
       IN /\ chan[peer][c] # << >>
          /\ sig' = [sig EXCEPT ![c][CurOp(c).b] = Received(chan[peer][c])]
          /\ chan' = [chan EXCEPT ![peer][c] = Remaining(@)]
    /\ StepFrame(c)
    /\ UNCHANGED sentLog

\* The master chunk reaches a synchronization operator whose comm was never
\* set: the call goes through an uninitialized pointer.  The process dies, or
\* the call returns having transmitted nothing.
ExecUnbound ==
    /\ \/ AtOp(0, "MPISend")
       \/ AtOp(0, "MPIRecv")
    /\ ~Bound(0)
    /\ \/ /\ cpc' = "crashed"
          /\ UNCHANGED << opIdx, execs >>
       \/ /\ execs' = [execs EXCEPT ![0][opIdx[0]] = @ + 1]
          /\ opIdx' = [opIdx EXCEPT ![0] = NextOp(@)]
          /\ UNCHANGED cpc
    /\ UNCHANGED << scn, comm, cfgIdx, finalized, stopSentTo, tornDown, runs,
                    requested, ungathered, gpend, probe_data, bound >>
    /\ UNCHANGED netVars
    /\ UNCHANGED workerVars
    /\ UNCHANGED << sig, ops, probes, nsteps, stepsLeft >>

\* The pass through the operators is over: every probe sees the step index,
\* and the step is counted.
EndStep(c) ==
    /\ Running(c)
    /\ opIdx[c] = Len(ops[c]) + 1
    /\ probes' = [probes EXCEPT ![c] =
                    [i \in 1..Len(@) |-> gather(@[i], nsteps[c], sig[c][@[i].sig])]]
    /\ nsteps' = [nsteps EXCEPT ![c] = @ + 1]
    /\ stepsLeft' = [stepsLeft EXCEPT ![c] = @ - 1]
    /\ opIdx' = [opIdx EXCEPT ![c] = 1]
    /\ UNCHANGED coordVars
    /\ UNCHANGED scn
    /\ UNCHANGED netVars
    /\ UNCHANGED workerVars
    /\ UNCHANGED << sig, ops, execs >>

\* ---- the system -----------------------------------------------------------
WorkerNext(w) ==
    \/ WorkerInit(w)
    \/ WorkerAddSignal(w)
    \/ WorkerAddOp(w)
    \/ WorkerAddProbe(w)
    \/ WorkerStop(w)
    \/ WorkerStartRun(w)
    \/ WorkerRunBarrier(w)
    \/ WorkerGather(w)

ChunkNext(c) ==
    \/ ExecReset(c)
    \/ ExecCopy(c)
    \/ ExecDotInc(c)
    \/ ExecMPISend(c)
    \/ ExecMPIRecv(c)
    \/ EndStep(c)

Next ==
    \/ \E up \in SUBSET Workers : initialize_chunks(up)
    \/ \E w \in Workers : add_signal(w)
    \/ \E w \in Workers : add_op(w)
    \/ \E w \in Workers : add_probe(w)
    \/ finalize
    \/ \E steps \in Steps : run_n_steps(steps)
    \/ RunBarrier
    \/ gather_probe_data
    \/ GatherRecv
    \/ GatherBarrier
    \/ finish_simulation
    \/ BarrierRelease
    \/ ExecUnbound
    \/ \E w \in Workers : WorkerNext(w)
    \/ \E c \in Chunks : ChunkNext(c)

Spec == Init /\ [][Next]_vars

\* Every process that can take a step eventually takes one; the caller is
\* under no obligation to call anything.
ProcessNext ==
    \/ RunBarrier
    \/ GatherRecv
    \/ GatherBarrier
    \/ BarrierRelease
    \/ \E w \in Workers : WorkerNext(w)
    \/ \E c \in Chunks : ChunkNext(c)

FairSpec == Spec /\ WF_vars(ProcessNext)

TypeOK ==
    /\ scn \in Scenarios
    /\ cpc \in {"new", "aborted", "idle", "run", "runbar", "gather",
               "gatherbar", "crashed"}
    /\ comm \in {{}, Chunks}
    /\ finalized \in BOOLEAN /\ tornDown \in BOOLEAN /\ ungathered \in BOOLEAN
    /\ bound \in BOOLEAN
    /\ stopSentTo \subseteq Workers
    /\ runs \in 0..MaxRuns
    /\ inBarrier \subseteq Chunks
    /\ \A w \in Workers :
          wpc[w] \in {"unspawned", "killed", "init", "loop", "run", "runbar",
                      "sendprobes", "gatherbar", "done"}
    /\ \A c \in Chunks : nsteps[c] \in 0..(MaxRuns * MaxSteps)
    /\ \A c \in Chunks : stepsLeft[c] \in Steps

\* ---- properties -----------------------------------------------------------
\* The last run_n_steps call has returned.
RunReturned == cpc = "idle" /\ runs > 0
\* The last gather_probe_data call has returned and no run was started since.
AfterGather == cpc = "idle" /\ runs > 0 /\ ~ungathered

\* Every chunk has executed all the steps requested so far, and no other.
AllStepsDone ==
    \A c \in Chunks : nsteps[c] = requested /\ stepsLeft[c] = 0

\* C1: once run_n_steps(n) has returned, every chunk, the master chunk and
\* every worker chunk, has completed exactly the n steps of that call (with
\* the earlier calls: exactly the steps requested so far), none fewer, none
\* more.
C1_RunStepsExact == RunReturned => AllStepsDone

C1_Witness ==
    /\ RunReturned
    /\ ungathered
    /\ runs = 2
    /\ requested >= 3
    /\ AllStepsDone

\* C2: once finalize() has been called, every worker eventually leaves its
\* loop: none stays blocked on a receive.
AllWorkersDone == \A w \in Workers : wpc[w] = "done"
C2_StopEndsEveryLoop == finalized ~> AllWorkersDone

C2_Witness ==
    /\ finalized
    /\ AllWorkersDone
    /\ runs > 0

\* C3: after gather_probe_data, every probe of every worker chunk is found in
\* the returned mapping with its own full sample sequence, also when two
\* chunks own probes with the same key.
C3_PerChunkProbeData ==
    AfterGather =>
        \A c \in Workers : \A i \in 1..Len(probes[c]) :
            /\ probes[c][i].key \in DOMAIN probe_data
            /\ probe_data[probes[c][i].key] = get_data(probes[c][i])

\* The positions of a's MPISend to b, and of b's MPIReceive from a.
SendOf(a, b) ==
    {i \in 1..Len(ops[a]) : ops[a][i].o = "MPISend" /\ ops[a][i].a = b}
RecvOf(b, a) ==
    {j \in 1..Len(ops[b]) : ops[b][j].o = "MPIRecv" /\ ops[b][j].a = a}

\* C4: for a matched MPISend in chunk a and MPIReceive in chunk b, the value
\* the receive writes in b's step t is the value a's signal had when a's send
\* executed in a's step t: right after the receive the destination holds it;
\* after the step the destination, and the destination of a Copy that follows
\* the receive, hold it; a period-1 probe on the destination holds one sample
\* per step, each the value sent in that step.
C4_SameStepValue ==
    \A a \in Chunks : \A b \in Chunks :
      \A i \in SendOf(a, b) : \A j \in RecvOf(b, a) :
        LET r == ops[b][j].b
            log == sentLog[a][b]
        IN /\ opIdx[b] = j + 1 =>
                /\ nsteps[b] + 1 <= Len(log)
                /\ sig[b][r] = log[nsteps[b] + 1]
           /\ (opIdx[b] = 1 /\ nsteps[b] > 0) =>
                /\ sig[b][r] = log[nsteps[b]]
                /\ \A k \in (j + 1)..Len(ops[b]) :
                      (ops[b][k].o = "Copy" /\ ops[b][k].b = r) =>
                          sig[b][ops[b][k].a] = log[nsteps[b]]
           /\ \A p \in 1..Len(probes[b]) :
                  (probes[b][p].sig = r /\ probes[b][p].period = 1) =>
                      get_data(probes[b][p]) = SubSeq(log, 1, nsteps[b])

C4_Witness ==
    /\ scn = "pair"
    /\ nsteps[2] = 3
    /\ sentLog[1][2] = << 1, 2, 3 >>
    /\ sig[2][2] = 3
    /\ get_data(probes[2][1]) = << 1, 2, 3 >>

\* Steps a chunk has started, and the number of the step it is in (or is
\* about to start).
StartedSteps(c) == nsteps[c] + (IF Running(c) /\ opIdx[c] > 1 THEN 1 ELSE 0)
CurrentStep(c) == nsteps[c] + 1
\* Sends of a (at position i) and receives of b (at position j) executed.
SendsDone(a, i) == nsteps[a] + (IF opIdx[a] > i THEN 1 ELSE 0)
RecvsDone(b, j) == nsteps[b] + (IF opIdx[b] > j THEN 1 ELSE 0)

\* C5 (as claimed): of two worker chunks joined by a matched MPISend and
\* MPIReceive, neither has started a step ahead of the step its peer is in.
C5_NeitherAhead ==
    \A a \in Workers : \A b \in Workers :
      \A i \in SendOf(a, b) : \A j \in RecvOf(b, a) :
        /\ StartedSteps(a) <= CurrentStep(b)
        /\ StartedSteps(b) <= CurrentStep(a)

\* C5 (amended): the receiving chunk never gets ahead of the sending chunk:
\* it has completed its receive of step t only if the sender has executed its
\* send of step t.  The sender is not held back by the receiver.
C5_ReceiverNotAhead ==
    \A a \in Chunks : \A b \in Chunks :
      \A i \in SendOf(a, b) : \A j \in RecvOf(b, a) :
        /\ RecvsDone(b, j) <= SendsDone(a, i)
        /\ RecvsDone(b, j) + Len(chan[a][b]) = Len(sentLog[a][b])

C5_Witness ==
    /\ scn = "pair"
    /\ SendsDone(1, 2) = 2
    /\ RecvsDone(2, 1) = 1
    /\ nsteps[2] = 0

\* The worker is in the gather that follows a run.
InGather(w) == wpc[w] \in {"sendprobes", "gatherbar"}

\* C6 (amended): the run phase and the gather phase each end with a group
\* barrier: no process is in the gather before every chunk has finished the
\* steps of the run, and no process is in a run while another is still in
\* the gather before it.
C6_RunGatherBarriers ==
    /\ (cpc \in {"gather", "gatherbar"} \/ \E w \in Workers : InGather(w))
          => AllStepsDone
    /\ cpc \in {"run", "runbar"} => \A w \in Workers : ~InGather(w)
    /\ (\E w \in Workers : wpc[w] \in {"run", "runbar"})
          => (cpc \notin {"gather", "gatherbar"} /\ gpend = << >>)

\* C6 (as claimed): the same, and the stop phase ends with a barrier too:
\* when finalize() has returned every worker has left its loop.
C6_EveryPhaseBarrier ==
    /\ C6_RunGatherBarriers
    /\ (cpc = "idle" /\ finalized) => AllWorkersDone

C6_Witness ==
    /\ runs = 2
    /\ cpc = "run"
    /\ probe_data # EmptyFn
    /\ \E w \in Workers : wpc[w] = "run" /\ stepsLeft[w] > 0

Floor(n, period) == n \div period
Ceil(n, period) == (n + period - 1) \div period

\* Every worker probe's key has an entry in the returned mapping.
EveryKeyGathered ==
    \A c \in Workers : \A i \in 1..Len(probes[c]) :
        probes[c][i].key \in DOMAIN probe_data
\* The entry of key k is the sample sequence of probe i of chunk c.
GatheredFrom(k, c, i) ==
    /\ probes[c][i].key = k
    /\ probe_data[k] = get_data(probes[c][i])

\* C7 (as claimed): run_n_steps(n) from step 0, then gather_probe_data: every
\* gathered sequence has floor(n / period) samples.
C7_FloorCount ==
    (AfterGather /\ runs = 1) =>
        /\ EveryKeyGathered
        /\ \A k \in DOMAIN probe_data :
              \E c \in Workers : \E i \in 1..Len(probes[c]) :
                 /\ GatheredFrom(k, c, i)
                 /\ Len(probe_data[k]) = Floor(requested, probes[c][i].period)

\* C7 (amended): a probe records on the steps of index 0, period, 2*period,
\* ...; after the steps 0..n-1 every gathered sequence has ceil(n / period)
\* samples (floor(n / period) when the period divides n), n counting all the
\* steps run since step 0.
C7_CeilCount ==
    AfterGather =>
        /\ EveryKeyGathered
        /\ \A k \in DOMAIN probe_data :
              \E c \in Workers : \E i \in 1..Len(probes[c]) :
                 /\ GatheredFrom(k, c, i)
                 /\ Len(probe_data[k]) = Ceil(nsteps[c], probes[c][i].period)

C7_Witness ==
    /\ AfterGather
    /\ scn = "pair"
    /\ requested = 3
    /\ Len(probe_data[1]) = 2
    /\ Len(probe_data[2]) = 3

IsPrefix(x, y) == Len(x) <= Len(y) /\ SubSeq(y, 1, Len(x)) = x

\* The commands issued for worker w so far, in call order, each with the
\* arguments the interface method received.
AsCalled(cmd) == IF cmd.t = "probe" THEN [cmd EXCEPT !.c = AsFloat(@)] ELSE cmd
Issued(w) == [i \in 1..cfgIdx[w] |-> AsCalled(Plan(scn, w)[i])]

\* The messages of one command, and of a sequence of commands.
MsgsOf(cmd) ==
    CASE cmd.t = "signal" -> AddSignalMsgs(cmd.a, cmd.b, cmd.c)
      [] cmd.t = "op"     -> AddOpMsgs(cmd.a)
      [] cmd.t = "probe"  -> AddProbeMsgs(cmd.a, cmd.b, cmd.c)
RECURSIVE MsgsOfAll(_)
MsgsOfAll(cmds) ==
    IF cmds = << >> THEN << >> ELSE MsgsOf(Head(cmds)) \o MsgsOfAll(Tail(cmds))

\* C8: the control messages addressed to one worker are applied by it in the
\* order the coordinator sent them, whatever was sent to the other workers in
\* between: label and dt first, then the commands in call order, the stop
\* flag last; what is still in flight is, flag by flag, the fields of the
\* commands not yet applied.
C8_AppliedInSendOrder ==
    \A w \in Workers :
      /\ IsPrefix(applied[w], Issued(w))
      /\ wpc[w] \in {"unspawned", "killed", "init"} => applied[w] = << >>
      /\ wpc[w] \notin {"unspawned", "killed", "init"} =>
            (label[w] = << "Chunk", w >> /\ dt[w] = dt[0])
      /\ wpc[w] = "done" => (w \in stopSentTo /\ applied[w] = Issued(w))
      /\ wpc[w] \notin {"unspawned", "killed"} =>
            ctrl[w] =
               (IF wpc[w] = "init" THEN << << "Chunk", w >>, dt[0] >> ELSE << >>)
               \o MsgsOfAll(SubSeq(Issued(w), Len(applied[w]) + 1, cfgIdx[w]))
               \o (IF w \in stopSentTo /\ wpc[w] # "done"
                   THEN << "stop_flag" >> ELSE << >>)

C8_Witness ==
    /\ scn = "pair"
    /\ wpc[1] = "done"
    /\ Len(applied[1]) = 5
    /\ wpc[2] = "loop"
    /\ Len(applied[2]) = 2
    /\ Len(ctrl[2]) > 4

\* After the spawn the merged group is the coordinator at rank 0 and the
\* workers at ranks 1..NumWorkers.
MergedGroup ==
    cpc \notin {"new", "aborted"} =>
        /\ comm = 0..NumWorkers
        /\ \A w \in 1..NumWorkers : wpc[w] # "unspawned"

\* C9 (as claimed): the chunk id the protocol uses for the worker of rank r
\* is r - 1: the label sent to rank r names chunk r - 1.
C9_ChunkIdIsRankMinusOne ==
    /\ MergedGroup
    /\ \A r \in Workers : label[r] # << >> => label[r] = << "Chunk", r - 1 >>

\* C9 (amended): the chunk id the protocol uses for the worker of rank r is
\* r itself, chunk 0 being the coordinator's own chunk: the label sent to
\* rank r names chunk r, the configuration issued for component r is applied
\* by rank r, and the probes counted for chunk index r are received from
\* rank r.
C9_ChunkIdIsRank ==
    /\ MergedGroup
    /\ \A r \in Workers :
          /\ label[r] # << >> => label[r] = << "Chunk", r >>
          /\ IsPrefix(applied[r], Issued(r))
          /\ cpc = "gather" =>
                Cardinality({x \in 1..Len(gpend) : gpend[x] = r}) * 2
                  = Len(gq[r]) + (IF wpc[r] = "sendprobes"
                                  THEN 2 * Len(probes[r]) ELSE 0)
    /\ \A x \in 1..Len(gpend) : gpend[x] \in Workers

C9_Witness ==
    /\ scn = "pair"
    /\ \A r \in Workers : label[r] = << "Chunk", r >>
    /\ cpc = "gather"
    /\ gpend = << 2 >>
    /\ applied[2] = Plan(scn, 2)

\* C10: the group is torn down (MPI_Finalize) only after a stop flag was sent
\* to every worker.
C10_StopBeforeTeardown == tornDown => stopSentTo = Workers

GatherCounted ==
    /\ \A x \in 1..Len(gpend) : gpend[x] # 0
    /\ gq[0] = << >>
    /\ cpc \in {"gather", "gatherbar"} =>
          \A w \in Workers :
             /\ Len(probes[w]) = ProbeCount(w)
             /\ Cardinality({x \in 1..Len(gpend) : gpend[x] = w}) * 2
                   + (IF wpc[w] \in {"runbar", "sendprobes"}
                      THEN 0 ELSE 2 * ProbeCount(w))
                   = Len(gq[w]) + 2 * ProbeCount(w)
    /\ cpc = "gatherbar" =>
          /\ gpend = << >>
          /\ \A w \in Workers :
                /\ gq[w] = << >>
                /\ ProbeCount(w) > 0 => wpc[w] = "gatherbar"

GatherOver ==
    /\ AfterGather
    /\ \A w \in Workers : wpc[w] \notin {"runbar", "sendprobes", "gatherbar"}

C12_GatherTerminates ==
    /\ []GatherCounted
    /\ (cpc = "gather") ~> GatherOver

C12_Witness ==
    /\ scn = "reset"
    /\ ProbeCount(0) = 1
    /\ GatherOver
    /\ runs = 2
    /\ 1 \in DOMAIN probe_data
    /\ Len(probe_data[1]) = requested
    /\ requested >= 2

\* C13: a probe gains a sample exactly on a step whose index is a multiple
\* of its period; the sample is the value its signal has at the end of that
\* step, joined to the end of the data.  Every other step of the system, the
\* operators that overwrite the signal and the steps whose index is no
\* multiple of the period included, leaves the recorded data as it was.
C13_RecordCopies ==
    [][\A c \in Chunks : \A i \in 1..Len(probes[c]) :
          IF nsteps'[c] = nsteps[c] + 1 /\ nsteps[c] % probes[c][i].period = 0
          THEN probes'[c][i].data
                 = Append(probes[c][i].data, sig[c][probes[c][i].sig])
          ELSE probes'[c][i].data = probes[c][i].data]_vars

C13_Witness ==
    /\ scn = "pair"
    /\ nsteps[1] = 2
    /\ Len(probes[1]) = 1
    /\ probes[1][1].period = 2
    /\ probes[1][1].data = << 1 >>
    /\ sig[1][probes[1][1].sig] = 2

\* C14: handing a probe's data out returns the whole recorded sequence, in
\* recording order, and leaves the probe as it was: the step in which a
\* worker sends its probes sends, per probe, the key and the full data, and
\* changes no probe.  No step of the system shortens or reorders a probe's
\* data, so a record after a drain extends the sequence the drain returned
\* and a second drain returns the first one's sequence, extended.
C14_DrainKeeps ==
    [][/\ \A c \in Chunks : \A i \in 1..Len(probes[c]) :
             IsPrefix(probes[c][i].data, probes'[c][i].data)
       /\ \A w \in Workers :
             (wpc[w] = "sendprobes" /\ wpc'[w] = "gatherbar") =>
                /\ probes'[w] = probes[w]
                /\ Len(gq'[w]) = Len(gq[w]) + 2 * Len(probes[w])
                /\ \A i \in 1..Len(probes[w]) :
                      /\ gq'[w][Len(gq[w]) + 2 * i - 1] = probes[w][i].key
                      /\ gq'[w][Len(gq[w]) + 2 * i] = probes[w][i].data]_vars

\* Two gathers, each after a run that recorded: the second returned the
\* samples of both runs.
C14_Witness ==
    /\ scn = "pair"
    /\ AfterGather
    /\ runs = 2
    /\ requested = 3
    /\ 2 \in DOMAIN probe_data
    /\ probe_data[2] = << 1, 2, 3 >>
    /\ probes[2][1].data = << 1, 2, 3 >>

\* The chunk a sequence of configuration commands describes: its signal
\* store, its operators and its probes, in the order of the commands.
RECURSIVE SigOf(_)
SigOf(cmds) ==
    IF cmds = << >> THEN EmptyFn
    ELSE LET last == cmds[Len(cmds)]
             init == SigOf(SubSeq(cmds, 1, Len(cmds) - 1))
         IN IF last.t = "signal" THEN (last.a :> last.c) @@ init ELSE init
RECURSIVE OpsOf(_)
OpsOf(cmds) ==
    IF cmds = << >> THEN << >>
    ELSE (IF Head(cmds).t = "op" THEN << Head(cmds).a >> ELSE << >>)
           \o OpsOf(Tail(cmds))
RECURSIVE ProbesOf(_)
ProbesOf(cmds) ==
    IF cmds = << >> THEN << >>
    ELSE (IF Head(cmds).t = "probe"
          THEN << NewProbe(Head(cmds).a, Head(cmds).b, Head(cmds).c) >>
          ELSE << >>) \o ProbesOf(Tail(cmds))

\* The one-process execution of the same configuration: per timestep the
\* chunks take their pass one after the other, by increasing index.
RefInit ==
    [sig    |-> [c \in Chunks |->
                   IF c = 0 THEN MasterSig(scn) ELSE SigOf(Plan(scn, c))],
     probes |-> [c \in Chunks |->
                   IF c = 0 THEN MasterProbes(scn) ELSE ProbesOf(Plan(scn, c))],
     chan   |-> [a \in Chunks |-> [b \in Chunks |-> << >>]]]
RefOpsOf(c) == IF c = 0 THEN MasterOps(scn) ELSE OpsOf(Plan(scn, c))
RefOp(st, c, op) ==
    CASE op.o = "Reset"  -> [st EXCEPT !.sig[c][op.a] = op.b]
      [] op.o = "Copy"   -> [st EXCEPT !.sig[c][op.a] = st.sig[c][op.b]]
      [] op.o = "DotInc" ->
            [st EXCEPT !.sig[c][op.c] = @ + st.sig[c][op.a] * st.sig[c][op.b]]
      [] op.o = "MPISend" ->
            [st EXCEPT !.chan[c][op.a] = Append(@, st.sig[c][op.b])]
      [] op.o = "MPIRecv" ->
            [st EXCEPT !.sig[c][op.b] = Head(st.chan[op.a][c]),
                       !.chan[op.a][c] = Tail(@)]
RECURSIVE RefPass(_, _, _)
RefPass(st, c, i) ==
    IF i > Len(RefOpsOf(c)) THEN st
    ELSE RefPass(RefOp(st, c, RefOpsOf(c)[i]), c, i + 1)
RECURSIVE RefStep(_, _, _)
RefStep(st, c, t) ==
    IF c > NumWorkers THEN st
    ELSE LET s1 == RefPass(st, c, 1)
             s2 == [s1 EXCEPT !.probes[c] =
                       [i \in 1..Len(@) |->
                           gather(@[i], t, s1.sig[c][@[i].sig])]]
         IN RefStep(s2, c + 1, t)
RECURSIVE RefRun(_)
RefRun(t) == IF t = 0 THEN RefInit ELSE RefStep(RefRun(t - 1), 0, t - 1)

\* What a gather returns from the chunks of st: the worker chunks by
\* increasing index, each one's probes in creation order.
RECURSIVE RefGathered(_, _, _)
RefGathered(st, c, i) ==
    IF c = 0 THEN EmptyFn
    ELSE IF i = 0 THEN RefGathered(st, c - 1, Len(st.probes[c - 1]))
    ELSE StoreProbe(RefGathered(st, c, i - 1), c,
                    st.probes[c][i].key, st.probes[c][i].data)

\* C15: the gathered probe output is a function of the configuration and of
\* the number of steps requested: whatever the interleaving of the
\* coordinator, the workers and the deliveries, once a gather has returned
\* every probe's gathered sequence is the one the one-process execution of
\* the same configuration yields for the same number of steps.
C15_OutputDetermined ==
    AfterGather =>
        probe_data = RefGathered(RefRun(requested), NumWorkers,
                                 Len(RefInit.probes[NumWorkers]))

C15_Witness ==
    /\ scn = "collide"
    /\ AfterGather
    /\ requested = 3
    /\ probe_data = (1 :> << 2, 2 >>)

\* C16: a worker that has applied everything the caller configured for it
\* holds the chunk the caller described: the commands it reconstructed are
\* the caller's, one for one and in order, its operator sequence and its
\* probes (key, signal, period) are the described ones in the described
\* order, and its signals are the described ones, with the described
\* initial values until the chunk takes its first step.
Configured(w) ==
    /\ wpc[w] \notin {"unspawned", "killed", "init"}
    /\ cfgIdx[w] = Len(Plan(scn, w))
    /\ Len(applied[w]) = cfgIdx[w]

C16_RoundTrip ==
    \A w \in Workers :
       Configured(w) =>
          /\ applied[w] = Plan(scn, w)
          /\ ops[w] = OpsOf(Plan(scn, w))
          /\ [i \in 1..Len(probes[w]) |-> [probes[w][i] EXCEPT !.data = << >>]]
                = ProbesOf(Plan(scn, w))
          /\ DOMAIN sig[w] = DOMAIN SigOf(Plan(scn, w))
          /\ (nsteps[w] = 0 /\ opIdx[w] = 1) => sig[w] = SigOf(Plan(scn, w))

\* A chunk from which nothing will come to w: its configuration holds no
\* MPISend addressed to w, or it is the master chunk with its operators
\* unbound.
WillNotSend(a, w) ==
    \/ \A i \in 1..Len(RefOpsOf(a)) :
          ~(RefOpsOf(a)[i].o = "MPISend" /\ RefOpsOf(a)[i].a = w)
    \/ a = 0 /\ ~bound
\* Worker w waits in an MPIReceive for a value that is not in flight and
\* that its peer will not send.
Stalled(w) ==
    /\ AtOp(w, "MPIRecv")
    /\ chan[CurOp(w).a][w] = << >>
    /\ WillNotSend(CurOp(w).a, w)

\* C17: nothing but the awaited message ends a blocking receive.  A worker
\* leaves its loop only once finalize() has been called, so without that
\* call no worker ever does; and a worker waiting in an MPIReceive for a
\* value its peer does not send waits in every later state, while every
\* rank that has entered the barrier of that run stays in it and the
\* coordinator's call does not return.
C17_NoTimeout ==
    [][\A w \in Workers :
          /\ wpc'[w] = "done" => finalized'
          /\ Stalled(w) =>
                /\ Stalled(w)'
                /\ inBarrier \subseteq inBarrier'
                /\ cpc' # "idle"]_vars

C17_Witness ==
    /\ scn = "orphan"
    /\ ~finalized
    /\ Stalled(2)
    /\ inBarrier = Chunks \ {2}
    /\ cpc = "runbar"
    /\ wpc[1] = "runbar"

\* C18: a chunk's timestep is one pass through its operators in their
\* given order, one operator at a time.  In every state each operator of a
\* chunk has executed once per completed step of the chunk, and once more
\* if the pass under way has gone past it; so after k completed steps every
\* operator has executed exactly k times, operator i + 1 never has executed
\* more often than operator i and is at most one execution behind, and no
\* operator after the one the chunk is at (a blocked MPIReceive included)
\* has run in the pass under way.
C18_OnePassPerStep ==
    \A c \in Chunks :
       /\ Len(execs[c]) = Len(ops[c])
       /\ opIdx[c] \in 1..(Len(ops[c]) + 1)
       /\ \A i \in 1..Len(ops[c]) :
             execs[c][i] = nsteps[c] + (IF i < opIdx[c] THEN 1 ELSE 0)

C18_Witness ==
    /\ scn = "pair"
    /\ nsteps[1] = 1 /\ opIdx[1] = 2 /\ execs[1] = << 2, 1 >>
    /\ nsteps[2] = 1 /\ execs[2] = << 1, 1 >>
    /\ AtOp(2, "MPIRecv")
    /\ chan[1][2] = << >>

\* Chunk c executes an operator in this step; that operator is of kind name.
Executes(c) == execs'[c] # execs[c] /\ Len(execs'[c]) = Len(execs[c])
ExecutesOp(c, name) == Executes(c) /\ ops[c][opIdx[c]].o = name

\* C19: the signals of a chunk are written by that chunk alone.  A step in
\* which chunk a executes an operator changes no signal of any other chunk.
\* An operator other than MPIReceive writes what a one-chunk execution of
\* it on the chunk's own signals writes.  An MPIReceive of chunk b writes,
\* into its own signal alone, the oldest value in flight from its peer, a
\* value the peer's MPISend transmitted.  An MPISend changes no signal at
\* all.
C19_SignalIsolation ==
    [][\A a \in Chunks :
          Executes(a) =>
             /\ \A b \in Chunks \ {a} : sig'[b] = sig[b]
             /\ ExecutesOp(a, "MPISend") => sig'[a] = sig[a]
             /\ (ExecutesOp(a, "MPIRecv") /\ Bound(a)) =>
                   LET peer == ops[a][opIdx[a]].a
                       got  == Len(sentLog[peer][a]) - Len(chan[peer][a]) + 1
                   IN /\ chan[peer][a] # << >>
                      /\ sig'[a] = [sig[a] EXCEPT ![ops[a][opIdx[a]].b] =
                                      sentLog[peer][a][got]]
             /\ (~ExecutesOp(a, "MPISend") /\ ~ExecutesOp(a, "MPIRecv")) =>
                   sig'[a] = RefOp([sig |-> sig], a, ops[a][opIdx[a]]).sig[a]]_vars

C19_Witness ==
    /\ scn = "pair"
    /\ sentLog[1][2] = << 1 >>
    /\ chan[1][2] = << >>
    /\ sig[1][2] = 1
    /\ sig[2][1] = 1
    /\ execs[2] = << 1, 0 >>

\* C20: the master chunk takes no step with an unbound synchronization
\* operator: whenever run_n_steps has the master chunk stepping, or the
\* master chunk has stepped, each MPISend / MPIReceive of the master chunk
\* holds the merged communicator.
MasterSyncOps ==
    {i \in 1..Len(ops[0]) : ops[0][i].o \in {"MPISend", "MPIRecv"}}

C20_MasterBoundBeforeStep ==
    (MasterSyncOps # {} /\ (Running(0) \/ nsteps[0] > 0)) => bound

====
